---- MODULE Spec2Model ----
(***************************************************************************)
(* Model of the k8s-golden-path generator: the HighThroughputAPI profile   *)
(* (src/core/profiles.py) and the generation pipeline (src/main.py).       *)
(*                                                                         *)
(* Three specifications share the variables below:                         *)
(*   Spec       - one run of main(): construct the profile, build the      *)
(*                render context, validate, render, write;                 *)
(*   SpecEngine - the profile's methods called on any valid profile and    *)
(*                any cluster answer;                                      *)
(*   SpecParse  - _parse_memory_to_mib on a bounded set of strings.        *)
(*                                                                         *)
(* Python strings are sequences of one-character strings.  Python floats   *)
(* are IEEE-754 doubles: a non-negative double is a sequence of base-4096  *)
(* limbs, least significant first, counting units of 2^-72, and every      *)
(* float operation rounds to 53 significant bits, ties to even.            *)
(***************************************************************************)
EXTENDS Integers, Sequences, FiniteSets, TLC

VARIABLES
    args,             \* main: parsed command line [name, rps, tier, lang]
    template_dir,     \* main: the template directory [exists, files]
    cluster,          \* what `kubectl get nodes -o json` answers right now
    pc,               \* position of the run / of the caller
    app_profile,      \* the HighThroughputAPI instance, or NoProfile
    render_context,   \* main: the values computed for the templates
    manifest_parts,   \* main: the documents collected for the manifest
    todo,             \* main: sorted template files not yet visited
    written,          \* main: files written to output/
    stdout,           \* lines printed (kinds only)
    queries,          \* capacity snapshots returned so far, in call order
    changes,          \* number of times the cluster answer has changed
    call              \* SpecEngine / SpecParse: last call [op, arg, ret]

vars == <<args, template_dir, cluster, pc, app_profile, render_context,
          manifest_parts, todo, written, stdout, queries, changes, call>>

(***************************************************************************)
(* Bounds of the model.                                                    *)
(***************************************************************************)
MaxNodes == 2       \* nodes in a cluster answer
MaxChanges == 1     \* changes of the cluster answer during one run
MaxPad == 1         \* padding characters on each side of a memory string

(***************************************************************************)
(* Python float arithmetic (IEEE-754 binary64, round to nearest even).     *)
(***************************************************************************)
LimbBits == 12
Base == 4096
FracLimbs == 6
MantissaBits == 53

RECURSIVE LimbsOfNat(_)
LimbsOfNat(n) == IF n = 0 THEN <<>> ELSE <<n % Base>> \o LimbsOfNat(n \div Base)

RECURSIVE NatOfLimbs(_, _)
NatOfLimbs(X, i) == IF i > Len(X) THEN 0 ELSE X[i] + Base * NatOfLimbs(X, i + 1)

Zeros(k) == [i \in 1..k |-> 0]

Norm(X) ==
    LET nz == {i \in 1..Len(X) : X[i] # 0}
    IN  IF nz = {} THEN <<>> ELSE SubSeq(X, 1, CHOOSE i \in nz : \A j \in nz : j <= i)

BitLenSmall(n) ==
    IF n = 0 THEN 0 ELSE CHOOSE b \in 1..LimbBits : 2^(b - 1) <= n /\ n < 2^b

BitLen(X) == IF X = <<>> THEN 0 ELSE (Len(X) - 1) * LimbBits + BitLenSmall(X[Len(X)])

\* In the definitions below a value used more than once is bound by a
\* quantifier over a singleton, which evaluates it exactly once.
RECURSIVE MulFrom(_, _, _, _)
MulFrom(X, k, i, carry) ==
    IF i > Len(X) THEN LimbsOfNat(carry)
    ELSE CHOOSE P \in {<<t % Base>> \o MulFrom(X, k, i + 1, t \div Base) :
                         t \in {X[i] * k + carry}} : TRUE

RECURSIVE AddAt(_, _, _)
AddAt(X, i, c) ==
    IF c = 0 THEN X
    ELSE IF i > Len(X) THEN X \o <<c>>
    ELSE CHOOSE S \in {AddAt([X EXCEPT ![i] = t % Base], i + 1, t \div Base) :
                         t \in {X[i] + c}} : TRUE

\* X, normalised and d bits longer than a mantissa, rounded to nearest, ties
\* to even; stickyIn: the exact value lies above X by less than one unit.
RoundNormal(X, d, stickyIn) ==
    IF d <= 0 THEN X
    ELSE LET q      == d \div LimbBits
             r      == d % LimbBits
             gl     == IF r = 0 THEN q ELSE q + 1
             gb     == IF r = 0 THEN LimbBits - 1 ELSE r - 1
             low    == IF r = 0 THEN X[q] ELSE X[q + 1] % (2^r)
             guard  == low >= 2^gb
             sticky == stickyIn \/ low % (2^gb) # 0 \/ \E i \in 1..(gl - 1) : X[i] # 0
             odd    == (X[q + 1] \div (2^r)) % 2 = 1
             up     == guard /\ (sticky \/ odd)
             trunc  == [i \in 1..Len(X) |->
                          IF i <= q THEN 0
                          ELSE IF i = q + 1 THEN (X[i] \div (2^r)) * (2^r)
                          ELSE X[i]]
         IN  IF up
             THEN CHOOSE S \in {AddAt(T, q + 1, 2^r) : T \in {trunc}} : TRUE
             ELSE trunc

\* The exact value X0 rounded to the nearest double.
RoundToDouble(X0, stickyIn) ==
    CHOOSE R \in {RoundNormal(X, BitLen(X) - MantissaBits, stickyIn) : X \in {Norm(X0)}} : TRUE

RECURSIVE FracQuot(_, _, _)
FracQuot(rem, d, k) ==
    IF k = 0 THEN <<>>
    ELSE CHOOSE Q \in {FracQuot(t % d, d, k - 1) \o <<t \div d>> : t \in {rem * Base}} : TRUE

RECURSIVE FracRem(_, _, _)
FracRem(rem, d, k) == IF k = 0 THEN rem ELSE FracRem((rem * Base) % d, d, k - 1)

\* The double a decimal literal n/d denotes (0.10 is FloatLiteral(10, 100)).
FloatLiteral(n, d) ==
    RoundToDouble(FracQuot(n % d, d, FracLimbs) \o LimbsOfNat(n \div d),
                  FracRem(n % d, d, FracLimbs) # 0)

\* float * int and int * float, for an int a double holds exactly.
FloatMulInt(X, k) ==
    CHOOSE R \in {RoundToDouble(MulFrom(x, k, 1, 0), FALSE) : x \in {X}} : TRUE

RECURSIVE GtFrom(_, _, _)
GtFrom(X, Y, i) ==
    IF i = 0 THEN FALSE
    ELSE IF X[i] # Y[i] THEN X[i] > Y[i]
    ELSE GtFrom(X, Y, i - 1)

GtNormal(X, Y) == IF Len(X) # Len(Y) THEN Len(X) > Len(Y) ELSE GtFrom(X, Y, Len(X))

\* x > y for floats
FloatGt(X0, Y0) ==
    CHOOSE b \in {GtNormal(X, Y) : X \in {Norm(X0)}, Y \in {Norm(Y0)}} : TRUE

\* int(x) of a non-negative float: truncation.
FloatToInt(X) == CHOOSE n \in {NatOfLimbs(x, FracLimbs + 1) : x \in {X}} : TRUE

(***************************************************************************)
(* Python str operations.                                                  *)
(***************************************************************************)
Digits == <<"0", "1", "2", "3", "4", "5", "6", "7", "8", "9">>
Whitespace == {" ", "\t", "\n"}

IsDigit(c) == \E i \in 1..10 : Digits[i] = c
DigitVal(c) == (CHOOSE i \in 1..10 : Digits[i] = c) - 1

\* s.strip() / s.strip(chars)
Strip(s0, cs) ==
    CHOOSE r \in {
        IF keep = {} THEN <<>>
        ELSE SubSeq(s, CHOOSE i \in keep : \A j \in keep : i <= j,
                       CHOOSE i \in keep : \A j \in keep : j <= i)
        : <<s, keep>> \in {<<t, {i \in 1..Len(t) : t[i] \notin cs}>> : t \in {s0}}} : TRUE

EndsWith(s, suf) ==
    Len(s) >= Len(suf) /\ SubSeq(s, Len(s) - Len(suf) + 1, Len(s)) = suf

Contains(s, sub) ==
    \E i \in 1..(Len(s) - Len(sub) + 1) : SubSeq(s, i, i + Len(sub) - 1) = sub

\* s.replace(sub, ''): every occurrence, left to right
RECURSIVE RemoveFrom(_, _, _)
RemoveFrom(s, sub, i) ==
    IF i + Len(sub) - 1 > Len(s) THEN SubSeq(s, i, Len(s))
    ELSE IF SubSeq(s, i, i + Len(sub) - 1) = sub THEN RemoveFrom(s, sub, i + Len(sub))
    ELSE <<s[i]>> \o RemoveFrom(s, sub, i + 1)

Remove(s0, sub) == CHOOSE r \in {RemoveFrom(s, sub, 1) : s \in {s0}} : TRUE

RECURSIVE DigitsVal(_, _)
DigitsVal(s, i) == IF i = 0 THEN 0 ELSE DigitVal(s[i]) + 10 * DigitsVal(s, i - 1)

Ok(v) == [exc |-> "none", val |-> v]
Raise(e) == [exc |-> e, val |-> 0]

\* int(t) for a str without surrounding whitespace: an optional sign and at
\* least one decimal digit; anything else is a ValueError.
IntOfStripped(t) ==
    CHOOSE r \in {
        IF Len(body) > 0 /\ \A i \in 1..Len(body) : IsDigit(body[i])
        THEN Ok(IF t[1] = "-" THEN 0 - DigitsVal(body, Len(body)) ELSE DigitsVal(body, Len(body)))
        ELSE Raise("ValueError")
        : body \in {IF Len(t) > 0 /\ t[1] \in {"-", "+"} THEN Tail(t) ELSE t}} : TRUE

\* int(s) for a str: surrounding whitespace is ignored.
PyInt(s) == CHOOSE r \in {IntOfStripped(t) : t \in {Strip(s, Whitespace)}} : TRUE

Upper == <<"A", "B", "C", "D", "E", "F", "G", "H", "I", "J", "K", "L", "M",
           "N", "O", "P", "Q", "R", "S", "T", "U", "V", "W", "X", "Y", "Z">>
Lowercase == <<"a", "b", "c", "d", "e", "f", "g", "h", "i", "j", "k", "l", "m",
               "n", "o", "p", "q", "r", "s", "t", "u", "v", "w", "x", "y", "z">>

\* s.lower()
Lower(s0) ==
    CHOOSE r \in {
        [i \in 1..Len(s) |->
            IF \E k \in 1..26 : Upper[k] = s[i]
            THEN Lowercase[CHOOSE k \in 1..26 : Upper[k] = s[i]]
            ELSE s[i]]
        : s \in {s0}} : TRUE

\* The characters of file names in code point order, and ord(c) up to that order.
Ascii == <<"-", ".">> \o Digits \o Upper \o <<"_">> \o Lowercase
Ord(c) == CHOOSE k \in 1..Len(Ascii) : Ascii[k] = c

\* a < b for str
RECURSIVE StrLessFrom(_, _, _)
StrLessFrom(a, b, i) ==
    IF i > Len(b) THEN FALSE
    ELSE IF i > Len(a) THEN TRUE
    ELSE IF a[i] # b[i] THEN Ord(a[i]) < Ord(b[i])
    ELSE StrLessFrom(a, b, i + 1)

StrLess(a, b) == StrLessFrom(a, b, 1)

\* sorted(S) for a collection of distinct str
RECURSIVE Sorted(_)
Sorted(S0) ==
    CHOOSE r \in {
        IF S = {} THEN <<>>
        ELSE CHOOSE q \in {<<m>> \o Sorted(S \ {m}) :
                            m \in {x \in S : \A y \in S \ {x} : StrLess(x, y)}} : TRUE
        : S \in {S0}} : TRUE

RECURSIVE NatDigits(_)
NatDigits(n) == IF n < 10 THEN <<Digits[n + 1]>> ELSE NatDigits(n \div 10) \o <<Digits[(n % 10) + 1]>>

\* f"{n}" for a non-negative int
FormatInt(n0) == CHOOSE r \in {NatDigits(n) : n \in {n0}} : TRUE

(***************************************************************************)
(* HighThroughputAPI (src/core/profiles.py).                               *)
(***************************************************************************)
PRODUCTION == "prod"
DEVELOPMENT == "dev"

\* cpu_percent and mem_percent are floats given as decimal literals with
\* two places; the profile keeps the hundredths, FloatLiteral the double.
PercentScale == 100

\* mem_str.strip().strip('"').strip("'")
TrimMem(mem_str) == Strip(Strip(Strip(mem_str, Whitespace), {"\""}), {"'"})

\* int(...) // 1024, int(...), int(...) * 1024, int(...) // (1024 * 1024)
FloorDiv(v, d) == IF v.exc = "none" THEN Ok(v.val \div d) ELSE v
Times(v, k) == IF v.exc = "none" THEN Ok(v.val * k) ELSE v

\* A faulty variant, for comparison: Ki taken as the decimal kilo.
parse_memory_to_mib_decimal(mem_str0) ==
    CHOOSE r \in {
        IF EndsWith(mem_str, <<"K", "i">>)
        THEN FloorDiv(PyInt(Remove(mem_str, <<"K", "i">>)), 1000)
        ELSE IF EndsWith(mem_str, <<"M", "i">>)
        THEN PyInt(Remove(mem_str, <<"M", "i">>))
        ELSE IF EndsWith(mem_str, <<"G", "i">>)
        THEN Times(PyInt(Remove(mem_str, <<"G", "i">>)), 1024)
        ELSE FloorDiv(PyInt(mem_str), 1024 * 1024)
        : mem_str \in {TrimMem(mem_str0)}} : TRUE

parse_memory_to_mib(mem_str0) ==
    CHOOSE r \in {
        IF EndsWith(mem_str, <<"K", "i">>)
        THEN FloorDiv(PyInt(Remove(mem_str, <<"K", "i">>)), 1024)
        ELSE IF EndsWith(mem_str, <<"M", "i">>)
        THEN PyInt(Remove(mem_str, <<"M", "i">>))
        ELSE IF EndsWith(mem_str, <<"G", "i">>)
        THEN Times(PyInt(Remove(mem_str, <<"G", "i">>)), 1024)
        ELSE FloorDiv(PyInt(mem_str), 1024 * 1024)
        : mem_str \in {TrimMem(mem_str0)}} : TRUE

\* int(cpu.replace('m', '')) if 'm' in cpu else int(cpu) * 1000
parse_cpu(cpu0) ==
    CHOOSE r \in {
        IF Contains(cpu, <<"m">>)
        THEN PyInt(Remove(cpu, <<"m">>))
        ELSE Times(PyInt(cpu), 1000)
        : cpu \in {cpu0}} : TRUE

FallbackCapacity == [avg_cpu |-> 8000, avg_mem |-> 16000, node_count |-> 1]

\* The loop over the nodes from node i on; an exception ends it.
RECURSIVE SumNodes(_, _, _, _)
SumNodes(nodes, i, total_cpu, total_mem) ==
    IF i > Len(nodes) THEN [exc |-> "none", total_cpu |-> total_cpu, total_mem |-> total_mem]
    ELSE CHOOSE r \in {
             IF cpu_m.exc # "none"
             THEN [exc |-> cpu_m.exc, total_cpu |-> total_cpu, total_mem |-> total_mem]
             ELSE CHOOSE q \in {
                      IF mem_mib.exc # "none"
                      THEN [exc |-> mem_mib.exc, total_cpu |-> total_cpu, total_mem |-> total_mem]
                      ELSE SumNodes(nodes, i + 1, total_cpu + cpu_m.val, total_mem + mem_mib.val)
                      : mem_mib \in {parse_memory_to_mib(nodes[i].memory)}} : TRUE
             : cpu_m \in {parse_cpu(nodes[i].cpu)}} : TRUE

\* The body of the try block: the exception it raises, or its return value.
TryClusterCapacity(c) ==
    IF c.kubectl # "ok" THEN [exc |-> c.kubectl]
    ELSE CHOOSE r \in {
             IF s.exc # "none" THEN [exc |-> s.exc]
             ELSE IF Len(c.items) = 0 THEN [exc |-> "ZeroDivisionError"]
             ELSE [exc |-> "none",
                   ret |-> [avg_cpu    |-> s.total_cpu \div Len(c.items),
                            avg_mem    |-> s.total_mem \div Len(c.items),
                            node_count |-> Len(c.items)]]
             : s \in {SumNodes(c.items, 1, 0, 0)}} : TRUE

\* A faulty variant, for comparison: a failure keeps what was summed before it, averaged.
get_cluster_capacity_partial(c) ==
    CHOOSE r \in {
        IF t.exc = "none" THEN [exc |-> "none", ret |-> t.ret]
        ELSE IF c.kubectl = "ok" /\ Len(c.items) > 0
        THEN CHOOSE q \in {
                 [exc |-> "none",
                  ret |-> [avg_cpu    |-> s.total_cpu \div Len(c.items),
                           avg_mem    |-> s.total_mem \div Len(c.items),
                           node_count |-> Len(c.items)]]
                 : s \in {SumNodes(c.items, 1, 0, 0)}} : TRUE
        ELSE [exc |-> "none", ret |-> FallbackCapacity]
        : t \in {TryClusterCapacity(c)}} : TRUE

\* try: ... except: return the fallback.  The outcome the caller sees: the
\* exception that reaches it (never one: the except clause is bare) and the
\* value returned.
get_cluster_capacity(c) ==
    CHOOSE r \in {
        IF t.exc = "none" THEN [exc |-> "none", ret |-> t.ret]
        ELSE [exc |-> "none", ret |-> FallbackCapacity]
        : t \in {TryClusterCapacity(c)}} : TRUE

\* int(cap * percent) for a percent given in hundredths
Fraction(n, percent) == FloatToInt(FloatMulInt(FloatLiteral(percent, PercentScale), n))

\* get_resources once the capacity is known
ResourcesOf(self, cap) ==
    CHOOSE r \in {
        IF self.tier = PRODUCTION
        THEN [cpu_request    |-> FormatInt(req_cpu) \o <<"m">>,
              cpu_limit      |-> FormatInt(req_cpu * 2) \o <<"m">>,
              memory_request |-> FormatInt(req_mem) \o <<"M", "i">>,
              memory_limit   |-> FormatInt(req_mem) \o <<"M", "i">>]
        ELSE [cpu_request    |-> FormatInt(req_cpu \div 2) \o <<"m">>,
              cpu_limit      |-> FormatInt(req_cpu) \o <<"m">>,
              memory_request |-> FormatInt(req_mem \div 2) \o <<"M", "i">>,
              memory_limit   |-> FormatInt(req_mem) \o <<"M", "i">>]
        : req_cpu \in {Fraction(cap.avg_cpu, self.cpu_percent)},
          req_mem \in {Fraction(cap.avg_mem, self.mem_percent)}} : TRUE

get_resources(self, c) ==
    CHOOSE r \in {ResourcesOf(self, cap) : cap \in {get_cluster_capacity(c).ret}} : TRUE

Max(a, b) == IF a >= b THEN a ELSE b

\* A faulty variant, for comparison: the replicas needed rounded up instead of down.
get_hpa_config_ceil(self) ==
    CHOOSE r \in {
        [kind               |-> "HorizontalPodAutoscaler",
         name               |-> self.app_name,
         minReplicas        |-> min_pods,
         maxReplicas        |-> min_pods * 2,
         averageUtilization |-> 70,
         averageValue       |-> FormatInt(1000)]
        : min_pods \in {Max(3, (self.peak_rps + 199) \div 200)}} : TRUE

get_hpa_config(self) ==
    CHOOSE r \in {
        [kind               |-> "HorizontalPodAutoscaler",
         name               |-> self.app_name,
         minReplicas        |-> min_pods,
         maxReplicas        |-> min_pods * 2,
         averageUtilization |-> 70,
         averageValue       |-> FormatInt(1000)]
        : min_pods \in {Max(3, self.peak_rps \div 200)}} : TRUE

\* The comparison validate_deployment makes on its capacity snapshot.
TooLarge(self, cap) ==
    CHOOSE r \in {
        FloatGt(total_req_cpu, safety_threshold)
        : total_req_cpu \in
              {FloatMulInt(FloatMulInt(FloatLiteral(self.cpu_percent, PercentScale), cap.avg_cpu),
                           get_hpa_config(self).maxReplicas)},
          safety_threshold \in
              {FloatMulInt(FloatLiteral(8, 10), cap.avg_cpu * cap.node_count)}} : TRUE

\* validate_deployment returns None; its only effect is what it prints.
validate_deployment(self, c) ==
    CHOOSE r \in {
        IF TooLarge(self, cap) THEN <<"WARNING">> ELSE <<>>
        : cap \in {get_cluster_capacity(c).ret}} : TRUE

get_java_opts(self, c) ==
    CHOOSE r \in {
        [Xms |-> FormatInt(Fraction(PyInt(Remove(res.memory_request, <<"M", "i">>)).val, 75)) \o <<"m">>,
         Xmx |-> FormatInt(Fraction(PyInt(Remove(res.memory_limit, <<"M", "i">>)).val, 75)) \o <<"m">>]
        : res \in {get_resources(self, c)}} : TRUE

get_service_monitor(self) == [kind |-> "ServiceMonitor", name |-> self.app_name]

\* HighThroughputAPI(...): pydantic validates the fields; peak_rps has gt=0,
\* app_name is any str.  Fields main() never sets keep their defaults.
HighThroughputAPI(app_name, peak_rps, tier, language, cpu_percent, mem_percent) ==
    IF peak_rps > 0
    THEN [exc |-> "none",
          ret |-> [app_name           |-> app_name,
                   peak_rps           |-> peak_rps,
                   tier               |-> tier,
                   language           |-> language,
                   cpu_percent        |-> cpu_percent,
                   mem_percent        |-> mem_percent,
                   monitoring_enabled |-> TRUE]]
    ELSE [exc |-> "ValidationError", ret |-> <<>>]

(***************************************************************************)
(* Inputs.                                                                 *)
(***************************************************************************)
NoProfile == <<>>
NoDir == [exists |-> FALSE, files |-> {}]
NoCall == [op |-> "none", arg |-> <<>>, exc |-> "none", ret |-> <<>>]

\* node answers: allocatable cpu and memory as kubectl prints them
Node8 == [cpu |-> <<"8">>, memory |-> <<"1", "6", "0", "0", "0", "M", "i">>]
Node7910m == [cpu |-> <<"7", "9", "1", "0", "m">>, memory |-> <<"1", "6", "G", "i">>]
Node3 == [cpu |-> <<"3">>, memory |-> <<"8", "0", "0", "0", "0", "0", "0", "K", "i">>]
NodeBadCpu == [cpu |-> <<"1", ".", "5">>, memory |-> <<"4", "G", "i">>]
NodeBadMem == [cpu |-> <<"4">>, memory |-> <<"8", "G">>]
Nodes == {Node8, Node7910m, Node3, NodeBadCpu, NodeBadMem}

RECURSIVE SeqsUpTo(_, _)
SeqsUpTo(S, n) ==
    IF n = 0 THEN {<<>>}
    ELSE LET shorter == SeqsUpTo(S, n - 1)
         IN  shorter \cup {Append(s, x) : s \in {t \in shorter : Len(t) = n - 1}, x \in S}

Clusters ==
    {[kubectl |-> "CalledProcessError", items |-> <<>>],
     [kubectl |-> "JSONDecodeError", items |-> <<>>]}
    \cup {[kubectl |-> "ok", items |-> ns] : ns \in SeqsUpTo(Nodes, MaxNodes)}

Tiers == {PRODUCTION, DEVELOPMENT}
EngineRps == {0, 100, 700, 1000, 1999}
EngineCpuPercents == {8, 10, 29}
EngineMemPercents == {15}

(***************************************************************************)
(* SpecEngine: the profile's methods, called by any caller.                *)
(***************************************************************************)
EngineInit ==
    /\ args \in [name : {<<"a", "p", "i">>}, rps : EngineRps, tier : Tiers, lang : {"java"},
                 cpu_percent : EngineCpuPercents, mem_percent : EngineMemPercents]
    /\ cluster \in Clusters
    /\ pc = "new"
    /\ app_profile = NoProfile
    /\ call = NoCall
    /\ queries = <<>>
    /\ stdout = <<>>
    /\ template_dir = NoDir
    /\ render_context = <<>>
    /\ manifest_parts = <<>>
    /\ todo = <<>>
    /\ written = {}
    /\ changes = 0

EngineConstruct ==
    /\ pc = "new"
    /\ LET r == HighThroughputAPI(args.name, args.rps, args.tier, args.lang,
                                  args.cpu_percent, args.mem_percent)
       IN  /\ pc' = IF r.exc = "none" THEN "ready" ELSE r.exc
           /\ app_profile' = r.ret
    /\ UNCHANGED <<args, template_dir, cluster, render_context, manifest_parts, todo,
                   written, stdout, queries, changes, call>>

EngineCapacity ==
    /\ pc = "ready"
    /\ LET r == get_cluster_capacity(cluster)
       IN  /\ call' = [op |-> "_get_cluster_capacity", arg |-> <<>>, exc |-> r.exc, ret |-> r.ret]
           /\ queries' = <<r.ret>>
    /\ stdout' = <<>>
    /\ UNCHANGED <<args, template_dir, cluster, pc, app_profile, render_context,
                   manifest_parts, todo, written, changes>>

EngineResources ==
    /\ pc = "ready"
    /\ call' = [op |-> "get_resources", arg |-> <<>>, exc |-> "none",
                ret |-> get_resources(app_profile, cluster)]
    /\ queries' = <<get_cluster_capacity(cluster).ret>>
    /\ stdout' = <<>>
    /\ UNCHANGED <<args, template_dir, cluster, pc, app_profile, render_context,
                   manifest_parts, todo, written, changes>>

EngineHpa ==
    /\ pc = "ready"
    /\ call' = [op |-> "get_hpa_config", arg |-> <<>>, exc |-> "none",
                ret |-> get_hpa_config(app_profile)]
    /\ queries' = <<>>
    /\ stdout' = <<>>
    /\ UNCHANGED <<args, template_dir, cluster, pc, app_profile, render_context,
                   manifest_parts, todo, written, changes>>

EngineValidate ==
    /\ pc = "ready"
    /\ call' = [op |-> "validate_deployment", arg |-> <<>>, exc |-> "none", ret |-> <<>>]
    /\ stdout' = validate_deployment(app_profile, cluster)
    /\ queries' = <<get_cluster_capacity(cluster).ret>>
    /\ UNCHANGED <<args, template_dir, cluster, pc, app_profile, render_context,
                   manifest_parts, todo, written, changes>>

EngineNext ==
    \/ EngineConstruct
    \/ EngineCapacity
    \/ EngineResources
    \/ EngineHpa
    \/ EngineValidate

SpecEngine == EngineInit /\ [][EngineNext]_vars

(***************************************************************************)
(* SpecParse: _parse_memory_to_mib on padded quantities.                   *)
(***************************************************************************)
PadChars == {" ", "\"", "'"}
Pads == SeqsUpTo(PadChars, MaxPad)
MemValues == {0, 1, 512, 1023, 1024, 2048, 1048575, 1048576, 1048577}
Units == {<<>>, <<"K", "i">>, <<"M", "i">>, <<"G", "i">>}
MemSuffixes == Units \cup {<<"G">>, <<"T", "i">>}
MemBodies ==
    {NatDigits(v) \o u : v \in MemValues, u \in MemSuffixes}
    \cup {<<>>, <<"M", "i">>, <<"1", ".", "5", "G", "i">>, <<"1", "K", "i", "2", "K", "i">>}
MemInputs == {l \o b \o r : l \in Pads, b \in MemBodies, r \in Pads}

ParseInit ==
    /\ call \in {[op |-> "none", arg |-> s, exc |-> "none", ret |-> 0] : s \in MemInputs}
    /\ args = <<>>
    /\ cluster = <<>>
    /\ pc = "caller"
    /\ app_profile = NoProfile
    /\ queries = <<>>
    /\ stdout = <<>>
    /\ template_dir = NoDir
    /\ render_context = <<>>
    /\ manifest_parts = <<>>
    /\ todo = <<>>
    /\ written = {}
    /\ changes = 0

ParseMemory ==
    /\ call.op = "none"
    /\ LET r == parse_memory_to_mib(call.arg)
       IN  call' = [op |-> "_parse_memory_to_mib", arg |-> call.arg, exc |-> r.exc, ret |-> r.val]
    /\ UNCHANGED <<args, template_dir, cluster, pc, app_profile, render_context,
                   manifest_parts, todo, written, stdout, queries, changes>>

ParseNext == ParseMemory

SpecParse == ParseInit /\ [][ParseNext]_vars

(***************************************************************************)
(* Spec: one run of main() (src/main.py).                                  *)
(***************************************************************************)
DeploymentJ2 == <<"d", "e", "p", "l", "o", "y", ".", "j", "2">>
HpaJ2 == <<"H", "P", "A", "-", "v", "2", ".", "j", "2">>
ServiceJ2 == <<"s", "v", "c", ".", "j", "2">>
Readme == <<"R", "E", "A", "D", "M", "E">>
FileNames == {DeploymentJ2, HpaJ2, ServiceJ2, Readme}

MainRps == {0, 100, 1000}
MainNames == {<<>>, <<"a", "p", "i">>}
MainLangs == {"java", "go"}
MainClusters ==
    {[kubectl |-> "CalledProcessError", items |-> <<>>],
     [kubectl |-> "ok", items |-> <<Node3>>],
     [kubectl |-> "ok", items |-> <<Node8, Node7910m>>]}

Init ==
    /\ args \in [name : MainNames, rps : MainRps, tier : Tiers, lang : MainLangs]
    /\ template_dir \in {NoDir} \cup {[exists |-> TRUE, files |-> fs] : fs \in SUBSET FileNames}
    /\ cluster \in MainClusters
    /\ pc = "start"
    /\ app_profile = NoProfile
    /\ render_context = <<>>
    /\ manifest_parts = <<>>
    /\ todo = <<>>
    /\ written = {}
    /\ stdout = <<>>
    /\ queries = <<>>
    /\ changes = 0
    /\ call = NoCall

\* 3. Initialize Profile.  cpu_percent and mem_percent are not passed: the
\* defaults 0.10 and 0.15 apply.  A ValidationError is not caught.
Construct ==
    /\ pc = "start"
    /\ LET r == HighThroughputAPI(args.name, args.rps, args.tier, args.lang, 10, 15)
       IN  /\ pc' = IF r.exc = "none" THEN "templates" ELSE r.exc
           /\ app_profile' = r.ret
    /\ UNCHANGED <<args, template_dir, cluster, render_context, manifest_parts, todo,
                   written, stdout, queries, changes, call>>

\* 4 and 4.1: the template directory and the *.j2 files in it, in the order
\* the loop of 4.3 visits them.
FindTemplates ==
    /\ pc = "templates"
    /\ IF ~template_dir.exists
       THEN /\ stdout' = Append(stdout, "Error: Template directory not found")
            /\ pc' = "returned"
            /\ todo' = todo
       ELSE /\ todo' = Sorted({f \in template_dir.files : EndsWith(f, <<".", "j", "2">>)})
            /\ pc' = "resources"
            /\ stdout' = stdout
    /\ UNCHANGED <<args, template_dir, cluster, app_profile, render_context,
                   manifest_parts, written, queries, changes, call>>

\* 4.2, up to "resources": get_resources() queries the cluster.
ContextResources ==
    /\ pc = "resources"
    /\ render_context' = [resources |-> get_resources(app_profile, cluster)]
    /\ queries' = Append(queries, get_cluster_capacity(cluster).ret)
    /\ pc' = "java_opts"
    /\ UNCHANGED <<args, template_dir, cluster, app_profile, manifest_parts, todo,
                   written, stdout, changes, call>>

\* 4.2, up to "java_opts": get_java_opts() calls get_resources() again.
ContextJavaOpts ==
    /\ pc = "java_opts"
    /\ render_context' = [resources |-> render_context.resources,
                          hpa       |-> get_hpa_config(app_profile),
                          java_opts |-> get_java_opts(app_profile, cluster)]
    /\ queries' = Append(queries, get_cluster_capacity(cluster).ret)
    /\ pc' = "container_env"
    /\ UNCHANGED <<args, template_dir, cluster, app_profile, manifest_parts, todo,
                   written, stdout, changes, call>>

\* 4.2, "container_env": for a Java application get_java_opts() once more.
ContextContainerEnv ==
    /\ pc = "container_env"
    /\ IF app_profile.language = "java"
       THEN /\ render_context' = [resources     |-> render_context.resources,
                                  hpa           |-> render_context.hpa,
                                  java_opts     |-> render_context.java_opts,
                                  container_env |-> get_java_opts(app_profile, cluster)]
            /\ queries' = Append(queries, get_cluster_capacity(cluster).ret)
       ELSE /\ render_context' = [resources     |-> render_context.resources,
                                  hpa           |-> render_context.hpa,
                                  java_opts     |-> render_context.java_opts,
                                  container_env |-> <<>>]
            /\ queries' = queries
    /\ pc' = "validate"
    /\ UNCHANGED <<args, template_dir, cluster, app_profile, manifest_parts, todo,
                   written, stdout, changes, call>>

\* A faulty variant, for comparison: a breach stops the run.
ValidateAborting ==
    /\ pc = "validate"
    /\ stdout' = stdout \o validate_deployment(app_profile, cluster)
    /\ queries' = Append(queries, get_cluster_capacity(cluster).ret)
    /\ pc' = IF validate_deployment(app_profile, cluster) # <<>> THEN "aborted" ELSE "render"
    /\ UNCHANGED <<args, template_dir, cluster, app_profile, render_context,
                   manifest_parts, todo, written, changes, call>>

\* app_profile.validate_deployment(): its own query, then the warning.
Validate ==
    /\ pc = "validate"
    /\ stdout' = stdout \o validate_deployment(app_profile, cluster)
    /\ queries' = Append(queries, get_cluster_capacity(cluster).ret)
    /\ pc' = "render"
    /\ UNCHANGED <<args, template_dir, cluster, app_profile, render_context,
                   manifest_parts, todo, written, changes, call>>

\* 4.3 and 4.4: one iteration of the loop over sorted(template_files).
RenderedParts(self, t_name) ==
    IF Contains(Lower(t_name), <<"h", "p", "a">>)
    THEN <<>>
    ELSE <<[kind |-> "rendered", name |-> t_name]>>
         \o <<get_hpa_config(self)>>
         \o (IF self.monitoring_enabled THEN <<get_service_monitor(self)>> ELSE <<>>)

RenderTemplate ==
    /\ pc = "render"
    /\ todo # <<>>
    /\ manifest_parts' = manifest_parts \o RenderedParts(app_profile, Head(todo))
    /\ todo' = Tail(todo)
    /\ UNCHANGED <<args, template_dir, cluster, pc, app_profile, render_context,
                   written, stdout, queries, changes, call>>

\* 5: join and save the combined manifest.
WriteManifest ==
    /\ pc = "render"
    /\ todo = <<>>
    /\ written' = written \cup {[file |-> "combined.yaml", docs |-> manifest_parts]}
    /\ stdout' = Append(stdout, "Successfully generated")
    /\ pc' = "dashboard"
    /\ UNCHANGED <<args, template_dir, cluster, app_profile, render_context,
                   manifest_parts, todo, queries, changes, call>>

WriteDashboard ==
    /\ pc = "dashboard"
    /\ written' = written \cup {[file |-> "dashboard.json", docs |-> <<>>]}
    /\ stdout' = Append(stdout, "Dashboard generated")
    /\ pc' = "done"
    /\ UNCHANGED <<args, template_dir, cluster, app_profile, render_context,
                   manifest_parts, todo, queries, changes, call>>

\* The environment: between two queries of one run the cluster may answer
\* differently (nodes join or leave, the API server goes away or comes back).
ClusterChanges ==
    /\ pc \in {"java_opts", "container_env", "validate"}
    /\ changes < MaxChanges
    /\ cluster' \in MainClusters \ {cluster}
    /\ changes' = changes + 1
    /\ UNCHANGED <<args, template_dir, pc, app_profile, render_context, manifest_parts,
                   todo, written, stdout, queries, call>>

Next ==
    \/ Construct
    \/ FindTemplates
    \/ ContextResources
    \/ ContextJavaOpts
    \/ ContextContainerEnv
    \/ Validate
    \/ RenderTemplate
    \/ WriteManifest
    \/ WriteDashboard
    \/ ClusterChanges

Spec == Init /\ [][Next]_vars

(***************************************************************************)
(* Properties.                                                             *)
(***************************************************************************)
IsNumber(s) == Len(s) > 0 /\ \A i \in 1..Len(s) : IsDigit(s[i])

\* A CPU quantity: whole cores, or milli-cores with the suffix m.
WellFormedCpu(s) ==
    \/ IsNumber(s)
    \/ Len(s) > 1 /\ s[Len(s)] = "m" /\ IsNumber(SubSeq(s, 1, Len(s) - 1))

\* A memory quantity: a number of bytes, or a number with Ki, Mi or Gi.
WellFormedMem(s) ==
    \/ IsNumber(s)
    \/ /\ Len(s) > 2
       /\ SubSeq(s, Len(s) - 1, Len(s)) \in {<<"K", "i">>, <<"M", "i">>, <<"G", "i">>}
       /\ IsNumber(SubSeq(s, 1, Len(s) - 2))

MalformedMemory(c) ==
    c.kubectl = "ok" /\ \E i \in 1..Len(c.items) : ~WellFormedMem(c.items[i].memory)

\* The query or the parsing fails somewhere: kubectl fails, its output is no
\* JSON, a node's quantity cannot be parsed, or there is no node to average.
QueryFails(c) ==
    \/ c.kubectl # "ok"
    \/ Len(c.items) = 0
    \/ \E i \in 1..Len(c.items) :
          ~WellFormedCpu(c.items[i].cpu) \/ ~WellFormedMem(c.items[i].memory)

Returned(op) == call.op = op

\* C1: for a valid profile get_hpa_config returns minReplicas =
\* max(3, floor(peak_rps / 200)) and maxReplicas = 2 * minReplicas, hence
\* minReplicas >= 3, whatever the cluster answers.
C1_HpaBounds ==
    Returned("get_hpa_config") =>
        /\ app_profile.peak_rps > 0
        /\ call.ret.minReplicas =
              (IF app_profile.peak_rps \div 200 > 3 THEN app_profile.peak_rps \div 200 ELSE 3)
        /\ call.ret.maxReplicas = 2 * call.ret.minReplicas
        /\ call.ret.minReplicas >= 3

C1_Witness ==
    /\ Returned("get_hpa_config")
    /\ app_profile.peak_rps = 1999
    /\ call.ret.minReplicas = 9
    /\ call.ret.maxReplicas = 18
    /\ cluster.kubectl # "ok"

\* The resources the specification describes for a capacity snapshot, with
\* base = floor(avg * percent) computed exactly.
SpecifiedResources(self, cap) ==
    LET base_cpu == (cap.avg_cpu * self.cpu_percent) \div PercentScale
        base_mem == (cap.avg_mem * self.mem_percent) \div PercentScale
    IN  IF self.tier = PRODUCTION
        THEN [cpu_request    |-> NatDigits(base_cpu) \o <<"m">>,
              cpu_limit      |-> NatDigits(2 * base_cpu) \o <<"m">>,
              memory_request |-> NatDigits(base_mem) \o <<"M", "i">>,
              memory_limit   |-> NatDigits(base_mem) \o <<"M", "i">>]
        ELSE [cpu_request    |-> NatDigits(base_cpu \div 2) \o <<"m">>,
              cpu_limit      |-> NatDigits(base_cpu) \o <<"m">>,
              memory_request |-> NatDigits(base_mem \div 2) \o <<"M", "i">>,
              memory_limit   |-> NatDigits(base_mem) \o <<"M", "i">>]

\* C2: get_resources returns, for the snapshot it took, the requests and
\* limits of the tier computed from base_cpu = floor(avg_cpu * cpu_percent)
\* and base_mem = floor(avg_mem * mem_percent).
C2_Resources ==
    Returned("get_resources") => call.ret = SpecifiedResources(app_profile, queries[1])

\* C3: validate_deployment warns if and only if avg_cpu * cpu_percent *
\* maxReplicas is strictly greater than avg_cpu * node_count * 0.8 (both
\* sides times 1000 here); at equality it does not warn.
C3_Breach ==
    Returned("validate_deployment") =>
        LET cap      == queries[1]
            max_pods == 2 * (IF app_profile.peak_rps \div 200 > 3
                             THEN app_profile.peak_rps \div 200 ELSE 3)
        IN  (stdout # <<>>) <=>
                (cap.avg_cpu * app_profile.cpu_percent * max_pods * 10
                     > cap.avg_cpu * cap.node_count * 800)

\* C4: whenever the query or the parsing fails at any point,
\* _get_cluster_capacity returns exactly the fallback capacity
\* {avg_cpu: 8000, avg_mem: 16000, node_count: 1} and raises nothing.
C4_Fallback ==
    (Returned("_get_cluster_capacity") /\ QueryFails(cluster)) =>
        /\ call.exc = "none"
        /\ call.ret = [avg_cpu |-> 8000, avg_mem |-> 16000, node_count |-> 1]

\* a failure after a first node was parsed and summed
C4_Witness ==
    /\ Returned("_get_cluster_capacity")
    /\ cluster.kubectl = "ok"
    /\ Len(cluster.items) = 2
    /\ WellFormedCpu(cluster.items[1].cpu) /\ WellFormedMem(cluster.items[1].memory)
    /\ ~WellFormedMem(cluster.items[2].memory)
    /\ call.ret.avg_cpu = 8000 /\ call.ret.node_count = 1

AfterValidate == pc \in {"render", "dashboard", "done"}

\* C5: in one run the capacity is queried exactly once; the capacity that
\* sized the resources is the capacity the safety check used.
C5_SingleSnapshot ==
    AfterValidate => Len(queries) = 1 /\ queries[1] = queries[Len(queries)]

\* C6: a profile with a non-positive peak request rate or an empty name is
\* rejected at construction: the run never gets past it, and no capacity
\* query, sizing or policy computation happens.
C6_InvalidRejected ==
    (args.rps <= 0 \/ args.name = <<>>) =>
        /\ pc \in {"start", "ValidationError"}
        /\ queries = <<>>
        /\ render_context = <<>>

\* C7: when a node's allocatable memory is malformed the capacity query
\* ends in a distinct "invalid capacity format" outcome, not in the
\* fallback capacity returned as if nothing had happened.
C7_InvalidFormat ==
    (Returned("_get_cluster_capacity") /\ MalformedMemory(cluster)) =>
        call.exc = "InvalidCapacityFormat"

Warned == \E i \in 1..Len(stdout) : stdout[i] = "WARNING"
FilesWritten == {w.file : w \in written}

\* C8: the safety check is advisory: with or without a warning the step
\* after validate_deployment is the rendering, the profile and the computed
\* values are untouched, and the run ends with both files written.
C8_Advisory ==
    /\ [][(pc = "validate" /\ pc' # pc) =>
            /\ pc' = "render"
            /\ app_profile' = app_profile
            /\ render_context' = render_context
            /\ manifest_parts' = manifest_parts
            /\ written' = written]_vars
    /\ [](pc = "dashboard" => FilesWritten = {"combined.yaml"})
    /\ [](pc = "done" => FilesWritten = {"combined.yaml", "dashboard.json"})

C8_Witness ==
    /\ pc = "done"
    /\ Warned
    /\ FilesWritten = {"combined.yaml", "dashboard.json"}

\* What the specification says a trimmed quantity <v><unit> converts to.
SpecifiedMib(v, unit) ==
    IF unit = <<"K", "i">> THEN v \div 1024
    ELSE IF unit = <<"M", "i">> THEN v
    ELSE IF unit = <<"G", "i">> THEN v * 1024
    ELSE v \div 1048576

Count(docs, kind) == Cardinality({i \in 1..Len(docs) : docs[i].kind = kind})

\* C10: the combined manifest holds the generated HPA document exactly once,
\* the ServiceMonitor exactly once when monitoring is enabled and never
\* otherwise, and no document rendered from a template named "...hpa...".
C10_Manifest ==
    \A w \in written :
        w.file = "combined.yaml" =>
            /\ Count(w.docs, "HorizontalPodAutoscaler") = 1
            /\ Count(w.docs, "ServiceMonitor") = (IF app_profile.monitoring_enabled THEN 1 ELSE 0)
            /\ \A i \in 1..Len(w.docs) :
                  w.docs[i].kind = "rendered" => ~Contains(Lower(w.docs[i].name), <<"h", "p", "a">>)

====
